---- MODULE Spec2Model ----
(***************************************************************************)
(* SecureVault: the auth service (registerUser, loginUser,                 *)
(* getLockoutStatus), the localStorage vault store (db.ts) and the crypto  *)
(* primitives (crypto.ts), as a state machine.                             *)
(***************************************************************************)
EXTENDS Integers, Sequences, FiniteSets, TLC

\* ------------------------------------------------------------------ bounds
\* Lockout periods the clock can run through after the start instant.
MaxPeriods == 1
\* Login attempts that reach the password check (log entries kept).
MaxLogs == 4
\* Entries held by the store.
MaxEntries == 2
\* Entries added through the App.
MaxAdds == 1

\* --------------------------------------------------------------- constants
MAX_ATTEMPTS == 3
LOCKOUT_DURATION_MS == 30000
\* Date.now() when the page is first opened.
StartTime == 1000

\* The instants Date.now() is observed at: the start and the last millisecond of each lockout
\* period, so that a lockout set at any of them expires at another one.
Offsets == {0, 29999}
TimePoints ==
    {StartTime + k * LOCKOUT_DURATION_MS + d : k \in 0..MaxPeriods, d \in Offsets}

\* ------------------------------------------------------------------ values
\* A value that may be missing (null / undefined / no item): <<>> or <<v>>.
None == <<>>
Some(v) == <<v>>

\* Strings are sequences of UTF-16 code units.  LoneSurrogate is an unpaired
\* surrogate code unit, Replacement is U+FFFD.
LoneSurrogate == "\\uD800"
Replacement == "\\uFFFD"

\* TextEncoder.encode: the string to scalar values (an unpaired surrogate
\* becomes U+FFFD), then UTF-8, which is one-to-one on scalar values.
TextEncode(s) ==
    [i \in DOMAIN s |-> IF s[i] = LoneSurrogate THEN Replacement ELSE s[i]]

\* TextDecoder.decode of well-formed UTF-8.
TextDecode(bytes) == bytes

\* btoa over the bytes of a buffer / atob back to the bytes.
bufferToBase64(buffer) == <<"base64", buffer>>
base64ToBuffer(base64) == base64[2]

\* generateSalt: base64 of 16 random bytes; the model draws from two.
Salts == {bufferToBase64(<<"salt", n>>) : n \in 1..2}

\* crypto.subtle.digest('SHA-256', data), collision-free.
SHA256(data) == <<"SHA-256", data>>

\* hashPassword: base64(SHA-256(encode(password + saltBase64))).  The salt
\* text is kept as one block at the end of the concatenation.
hashPassword(password, saltBase64) ==
    bufferToBase64(SHA256(TextEncode(password \o <<saltBase64>>)))

\* deriveKey: PBKDF2 over the encoded password and the salt bytes.
deriveKey(password, saltBase64) ==
    [alg |-> "AES-GCM",
     material |-> TextEncode(password),
     salt |-> base64ToBuffer(saltBase64)]

\* Master passwords tried by the model (the first two pass the length rule).
Passwords ==
    {<<"h", "u", "n", "t", "e", "r", "2", "2">>,
     <<"w", "r", "o", "n", "g", "p", "a", "s">>}

\* Passwords tried at login: the above and one that is never the master
\* password, so that two different wrong passwords can meet one vault.
Attempts == Passwords \cup {<<"l", "e", "t", "m", "e", "i", "n", "1">>}

\* Passwords typed into the forms: the above and one that is too short.
FormPasswords == Passwords \cup {<<"p", "w">>}

\* Minimum length handleRegister accepts.
MinPasswordLength == 8

\* AES-GCM under a key and an IV; decryption verifies the tag, so it yields
\* the data only under the same key and IV.
AesGcmEncrypt(key, iv, data) == <<"AES-GCM", key, iv, data>>
AesGcmDecrypt(key, iv, encrypted) ==
    IF encrypted[2] = key /\ encrypted[3] = iv THEN Some(encrypted[4]) ELSE None

\* The 12 random bytes of an IV; the model draws from two.
IVs == {<<"iv", n>> : n \in 1..2}

\* encryptData(text, key), with the IV it drew.
encryptData(text, key, iv) ==
    [ciphertext |-> bufferToBase64(AesGcmEncrypt(key, iv, TextEncode(text))),
     iv |-> bufferToBase64(iv)]

\* decryptData: Some(plaintext), or None when it throws 'Decryption failed'.
decryptData(ciphertextBase64, ivBase64, key) ==
    LET ciphertext == base64ToBuffer(ciphertextBase64)
        iv == base64ToBuffer(ivBase64)
        decryptedBuffer == AesGcmDecrypt(key, iv, ciphertext)
    IN IF decryptedBuffer # None THEN Some(TextDecode(decryptedBuffer[1])) ELSE None

\* Secrets typed into the Add form: one well-formed, one with an unpaired
\* surrogate.
Secrets == {<<"p", "@", "s", "s">>, <<"k", LoneSurrogate>>}

\* crypto.randomUUID() values.
Ids == 1..MaxEntries

\* A PasswordEntry as handleAddEntry assembles it.
NewEntry(id, encrypted, createdAt) ==
    [id |-> id, site |-> "example.com", username |-> "alice",
     encryptedPassword |-> encrypted.ciphertext, iv |-> encrypted.iv,
     createdAt |-> createdAt]

\* PasswordEntry records written through saveEntry at the store level.
SampleEntries ==
    {NewEntry(i,
              encryptData(<<"p", "@", "s", "s">>,
                          deriveKey(<<"h", "u", "n", "t", "e", "r", "2", "2">>,
                                    bufferToBase64(<<"salt", 1>>)),
                          <<"iv", i>>),
              StartTime) : i \in Ids}

\* ------------------------------------------------------------------- state
VARIABLES
    lsMetadata,   \* localStorage item 'secure_vault_metadata': None or Some
    lsEntries,    \* localStorage item 'secure_vault_entries'
    lsAttempts,   \* localStorage item 'secure_vault_attempts'
    clock,        \* Date.now()
    login,        \* per invocation of loginUser: its position and locals
    lockStatus,   \* getLockoutStatus: its locals and the value it returned
    failedDone,   \* history: failed attempts completed since the last success
    wiped,        \* history: what resetVault removed, until the next registration
    viewState,    \* App: LOADING, ONBOARDING, LOGIN or VAULT
    masterKey,    \* App: the session key, None or Some
    authError,    \* App: the error shown on the auth forms
    entries,      \* App: the entry list shown
    revealedIds,  \* App: ids shown in clear
    decryptedValues, \* App: id -> decrypted plaintext
    registerCall, \* handleRegister awaiting: None or Some(password)
    addCall,      \* handleAddEntry awaiting encryptData: None or Some(captured)
    revealCall,   \* toggleReveal awaiting decryptData: None or Some(captured)
    alerted,      \* alert("Failed to decrypt...") has been shown
    typed,        \* history: id -> the secret typed for that entry, and the logins before it
    initCall      \* initVault in progress: None or Some(metadata, items written)

store == <<lsMetadata, lsEntries, lsAttempts>>
service == <<lsMetadata, lsEntries, lsAttempts, clock, login, lockStatus,
             failedDone, wiped>>
ui == <<viewState, masterKey, authError, entries, revealedIds, decryptedValues,
        registerCall, addCall, revealCall, alerted, typed>>
vars == <<lsMetadata, lsEntries, lsAttempts, clock, login, lockStatus, failedDone,
          wiped, viewState, masterKey, authError, entries, revealedIds,
          decryptedValues, registerCall, addCall, revealCall, alerted, typed,
          initCall>>

Procs == {1, 2}

ZeroState == [count |-> 0, lockoutUntil |-> 0, logs |-> <<>>]

\* --------------------------------------------------------------- db.ts
hasVault == lsMetadata # None

\* Variant: a default record stands in for the missing one, as getSecurityState
\* does for the attempts.
getMetadata_Default ==
    IF lsMetadata # None THEN lsMetadata
    ELSE Some([salt |-> bufferToBase64(<<"salt", 1>>),
               authHash |-> hashPassword(<<>>, bufferToBase64(<<"salt", 1>>))])

getMetadata == lsMetadata

getEntries == IF lsEntries # None THEN lsEntries[1] ELSE <<>>

getSecurityState == IF lsAttempts # None THEN lsAttempts[1] ELSE ZeroState

\* Variant: the attempts record of the previous vault is kept when present.
initVault_KeepsAttempts(metadata) ==
    /\ lsMetadata' = Some(metadata)
    /\ lsEntries' = Some(<<>>)
    /\ lsAttempts' = Some(getSecurityState)

initVault(metadata) ==
    /\ lsMetadata' = Some(metadata)
    /\ lsEntries' = Some(<<>>)
    /\ lsAttempts' = Some(ZeroState)

\* Variant: the entry is put at the front (unshift in place of push).
saveEntry_Unshift(entry) ==
    /\ lsEntries' = Some(<<entry>> \o getEntries)
    /\ UNCHANGED <<lsMetadata, lsAttempts>>

saveEntry(entry) ==
    /\ lsEntries' = Some(Append(getEntries, entry))
    /\ UNCHANGED <<lsMetadata, lsAttempts>>

deleteEntry(id) ==
    /\ lsEntries' = Some(SelectSeq(getEntries, LAMBDA e : e.id # id))
    /\ UNCHANGED <<lsMetadata, lsAttempts>>

resetVault ==
    /\ lsMetadata' = None
    /\ lsEntries' = None
    /\ lsAttempts' = None

\* Variant: the write is put off and has not reached the store.
updateSecurityState_Deferred(state) ==
    UNCHANGED <<lsMetadata, lsEntries, lsAttempts>>

\* Variant: the record is written and the metadata item removed with it.
updateSecurityState_DropsMetadata(state) ==
    /\ lsAttempts' = Some(state)
    /\ lsMetadata' = None
    /\ UNCHANGED lsEntries

updateSecurityState(state) ==
    /\ lsAttempts' = Some(state)
    /\ UNCHANGED <<lsMetadata, lsEntries>>

\* --------------------------------------------------------------- auth
\* Variant: the seconds rounded down (Math.floor in place of Math.ceil).
CeilSeconds_Floor(ms) == ms \div 1000

\* Math.ceil(ms / 1000) for ms > 0.
CeilSeconds(ms) == (ms + 999) \div 1000

\* Variant: the lockout duration added a second time at the comparison.
LoginIsLocked_DurationTwice(securityState, now) ==
    securityState.lockoutUntil > now + LOCKOUT_DURATION_MS

\* Variant: the boundary instant counted as locked (>= in place of >).
LoginIsLocked_Inclusive(securityState, now) == securityState.lockoutUntil >= now

\* loginUser, line 98.
LoginIsLocked(securityState, now) == securityState.lockoutUntil > now

\* loginUser, line 99.
LoginRemaining(securityState, now) ==
    CeilSeconds(securityState.lockoutUntil - now)

\* The error texts, as their fragments.
ErrLocked(remaining) == <<"Account locked. Try again in ", remaining, " seconds.">>
\* Variant: the missing vault is reported with the text of a wrong password.
ErrCorrupted_Generic == <<"Invalid password.">>

ErrCorrupted == <<"Vault corrupted or missing.">>
ErrInvalid == <<"Invalid password.">>
ErrTooMany ==
    <<"Too many failed attempts. Account locked for ",
      LOCKOUT_DURATION_MS \div 1000, " seconds.">>

Failure(error) == [success |-> FALSE, key |-> None, error |-> Some(error)]
Success(key) == [success |-> TRUE, key |-> Some(key), error |-> None]

\* Variant: an assignment in place of the comparison, always truthy.
PasswordMatches_Assigned(attemptHash, metadata) == attemptHash # None

\* loginUser, line 111.
PasswordMatches(attemptHash, metadata) == attemptHash = metadata.authHash

\* Variant: the log is started afresh instead of extended.
SuccessState_FreshLog(securityState, now) ==
    [securityState EXCEPT
        !.count = 0,
        !.lockoutUntil = 0,
        !.logs = <<[timestamp |-> now, success |-> TRUE]>>]

\* Variant: the count is reset and the lockout instant left as it was.
SuccessState_KeepsLockout(securityState, now) ==
    [securityState EXCEPT
        !.count = 0,
        !.logs = Append(securityState.logs, [timestamp |-> now, success |-> TRUE])]

\* Variant: the lockout is cleared and the count left as it was.
SuccessState_KeepsCount(securityState, now) ==
    [securityState EXCEPT
        !.lockoutUntil = 0,
        !.logs = Append(securityState.logs, [timestamp |-> now, success |-> TRUE])]

\* loginUser, lines 114-119: the state written on a match.
SuccessState(securityState, now) ==
    [securityState EXCEPT
        !.count = 0,
        !.lockoutUntil = 0,
        !.logs = Append(securityState.logs, [timestamp |-> now, success |-> TRUE])]

\* Variant: the threshold test off by one (> in place of >=).
FailureState_OffByOne(securityState, now) ==
    LET newCount == securityState.count + 1
        newLockout == IF newCount > MAX_ATTEMPTS
                      THEN now + LOCKOUT_DURATION_MS ELSE 0
    IN [securityState EXCEPT
           !.count = newCount,
           !.lockoutUntil = newLockout,
           !.logs = Append(securityState.logs,
                           [timestamp |-> now, success |-> FALSE])]

\* Variant: a failure after an expired lockout starts the count again.
FailureState_FreshAfterExpiry(securityState, now) ==
    LET newCount == IF securityState.lockoutUntil # 0
                    THEN 1 ELSE securityState.count + 1
        newLockout == IF newCount >= MAX_ATTEMPTS
                      THEN now + LOCKOUT_DURATION_MS ELSE 0
    IN [securityState EXCEPT
           !.count = newCount,
           !.lockoutUntil = newLockout,
           !.logs = Append(securityState.logs,
                           [timestamp |-> now, success |-> FALSE])]

\* loginUser, lines 125-139: the state written on a mismatch.
FailureState(securityState, now) ==
    LET newCount == securityState.count + 1
        newLockout == IF newCount >= MAX_ATTEMPTS
                      THEN now + LOCKOUT_DURATION_MS ELSE 0
    IN [securityState EXCEPT
           !.count = newCount,
           !.lockoutUntil = newLockout,
           !.logs = Append(securityState.logs,
                           [timestamp |-> now, success |-> FALSE])]

\* loginUser, lines 127-132 and 141: the error returned on a mismatch.
FailureError(securityState) ==
    IF securityState.count + 1 >= MAX_ATTEMPTS THEN ErrTooMany ELSE ErrInvalid

Idle ==
    [pc |-> "idle", password |-> <<>>, securityState |-> ZeroState, now |-> 0,
     metadata |-> None, result |-> None]

\* Variant: a rejected call (locked out, or no metadata) is put on the log too.
LoginCall_LogsRejected(i, password) ==
    /\ login[i].pc = "idle"
    /\ lockStatus = None
    /\ Len(getSecurityState.logs) < MaxLogs
    /\ LET securityState == getSecurityState
           now == clock
           metadata == getMetadata
           locals == [Idle EXCEPT !.password = password,
                                  !.securityState = securityState,
                                  !.now = now,
                                  !.metadata = metadata]
           logged == [securityState EXCEPT
                         !.logs = Append(securityState.logs,
                                         [timestamp |-> now, success |-> FALSE])]
       IN IF LoginIsLocked(securityState, now)
          THEN /\ login' = [login EXCEPT ![i] =
                      [locals EXCEPT
                          !.pc = "returned",
                          !.result = Some(Failure(ErrLocked(
                                        LoginRemaining(securityState, now))))]]
               /\ updateSecurityState(logged)
          ELSE IF metadata = None
          THEN /\ login' = [login EXCEPT ![i] =
                      [locals EXCEPT !.pc = "returned",
                                     !.result = Some(Failure(ErrCorrupted))]]
               /\ updateSecurityState(logged)
          ELSE /\ login' = [login EXCEPT ![i] = [locals EXCEPT !.pc = "hashPassword"]]
               /\ UNCHANGED store
    /\ UNCHANGED <<clock, lockStatus, failedDone, wiped>>

\* loginUser(password), lines 93-109: up to the await of hashPassword.
LoginCall(i, password) ==
    /\ login[i].pc = "idle"
    /\ lockStatus = None
    /\ Len(getSecurityState.logs) < MaxLogs
    /\ LET securityState == getSecurityState
           now == clock
           metadata == getMetadata
           locals == [Idle EXCEPT !.password = password,
                                  !.securityState = securityState,
                                  !.now = now,
                                  !.metadata = metadata]
       IN login' = [login EXCEPT ![i] =
              IF LoginIsLocked(securityState, now)
              THEN [locals EXCEPT
                       !.pc = "returned",
                       !.result = Some(Failure(ErrLocked(
                                     LoginRemaining(securityState, now))))]
              ELSE IF metadata = None
              THEN [locals EXCEPT !.pc = "returned",
                                  !.result = Some(Failure(ErrCorrupted))]
              ELSE [locals EXCEPT !.pc = "hashPassword"]]
    /\ UNCHANGED <<store, clock, lockStatus, failedDone, wiped>>

\* loginUser, lines 109-142: hashPassword has resolved.
LoginVerify(i) ==
    /\ login[i].pc = "hashPassword"
    /\ LET l == login[i]
           attemptHash == hashPassword(l.password, l.metadata[1].salt)
       IN IF PasswordMatches(attemptHash, l.metadata[1])
          THEN /\ updateSecurityState(SuccessState(l.securityState, l.now))
               /\ login' = [login EXCEPT ![i].pc = "deriveKey"]
               /\ failedDone' = 0
          ELSE /\ updateSecurityState(FailureState(l.securityState, l.now))
               /\ login' = [login EXCEPT
                      ![i].pc = "returned",
                      ![i].result = Some(Failure(FailureError(l.securityState)))]
               /\ failedDone' = failedDone + 1
    /\ UNCHANGED <<clock, lockStatus, wiped>>

\* Variant: the key is derived from the stored hash in place of the stored salt.
LoginDerived_KeyFromHash(i) ==
    /\ login[i].pc = "deriveKey"
    /\ login' = [login EXCEPT
           ![i].pc = "returned",
           ![i].result = Some(Success(deriveKey(login[i].password,
                                                login[i].metadata[1].authHash)))]
    /\ UNCHANGED <<store, clock, lockStatus, failedDone, wiped>>

\* loginUser, lines 121-122: deriveKey has resolved.
LoginDerived(i) ==
    /\ login[i].pc = "deriveKey"
    /\ login' = [login EXCEPT
           ![i].pc = "returned",
           ![i].result = Some(Success(deriveKey(login[i].password,
                                                login[i].metadata[1].salt)))]
    /\ UNCHANGED <<store, clock, lockStatus, failedDone, wiped>>

\* The caller takes the result; the invocation is over.
LoginTaken(i) ==
    /\ login[i].pc = "returned"
    /\ login' = [login EXCEPT ![i] = Idle]
    /\ UNCHANGED <<store, clock, lockStatus, failedDone, wiped>>

\* No call of the service or the store is in progress or waiting to be taken.
NoCallPending == lockStatus = None /\ \A i \in Procs : login[i].pc = "idle"

\* registerUser(password), lines 77-91, with the salt generateSalt drew.
RegisterUser(password, salt) ==
    /\ NoCallPending
    /\ initVault([salt |-> salt, authHash |-> hashPassword(password, salt)])
    /\ failedDone' = 0
    /\ wiped' = None
    /\ UNCHANGED <<clock, login, lockStatus>>

\* registerUser, lines 77-88: the salt is drawn and the password hashed;
\* initVault is about to be called with the metadata.
RegisterUserBegin(password, salt) ==
    /\ NoCallPending
    /\ initCall = None
    /\ initCall' = Some([metadata |-> [salt |-> salt,
                                      authHash |-> hashPassword(password, salt)],
                         written |-> 0])
    /\ UNCHANGED <<store, clock, login, lockStatus, failedDone, wiped>>

\* initVault, lines 16-18, one localStorage.setItem at a time.
InitVaultWrite ==
    /\ initCall # None
    /\ LET c == initCall[1] IN
       \/ /\ c.written = 0
          /\ lsMetadata' = Some(c.metadata)
          /\ initCall' = Some([c EXCEPT !.written = 1])
          /\ UNCHANGED <<lsEntries, lsAttempts, failedDone, wiped>>
       \/ /\ c.written = 1
          /\ lsEntries' = Some(<<>>)
          /\ initCall' = Some([c EXCEPT !.written = 2])
          /\ UNCHANGED <<lsMetadata, lsAttempts, failedDone, wiped>>
       \/ /\ c.written = 2
          /\ lsAttempts' = Some(ZeroState)
          /\ initCall' = None
          /\ failedDone' = 0
          /\ wiped' = None
          /\ UNCHANGED <<lsMetadata, lsEntries>>
    /\ UNCHANGED <<clock, login, lockStatus>>

\* Execution stops inside initVault: setItem throws (quota) or the page goes
\* away.  What has been written stays.
InitVaultStops ==
    /\ initCall # None
    /\ initCall' = None
    /\ UNCHANGED <<store, clock, login, lockStatus, failedDone, wiped>>

\* Variant: the boundary instant counted as locked (>= in place of >).
LockoutStatus_Inclusive(lockoutUntil, now) ==
    IF lockoutUntil >= now
    THEN [isLocked |-> TRUE, remaining |-> CeilSeconds(lockoutUntil - now)]
    ELSE [isLocked |-> FALSE, remaining |-> 0]

\* getLockoutStatus, lines 145-152, as a function of what it reads.
LockoutStatus(lockoutUntil, now) ==
    IF lockoutUntil > now
    THEN [isLocked |-> TRUE, remaining |-> CeilSeconds(lockoutUntil - now)]
    ELSE [isLocked |-> FALSE, remaining |-> 0]

\* Variant: the default state is written back when the record is read.
GetLockoutStatus_WritesBack ==
    /\ lockStatus = None
    /\ \A i \in Procs : login[i].pc \in {"idle", "returned"}
    /\ lockStatus' =
          Some([lockoutUntil |-> getSecurityState.lockoutUntil,
                now |-> clock,
                returned |-> LockoutStatus(getSecurityState.lockoutUntil, clock)])
    /\ lsAttempts' = Some(getSecurityState)
    /\ UNCHANGED <<lsMetadata, lsEntries, clock, login, failedDone, wiped>>

GetLockoutStatus ==
    /\ lockStatus = None
    /\ \A i \in Procs : login[i].pc \in {"idle", "returned"}
    /\ lockStatus' =
          Some([lockoutUntil |-> getSecurityState.lockoutUntil,
                now |-> clock,
                returned |-> LockoutStatus(getSecurityState.lockoutUntil, clock)])
    /\ UNCHANGED <<store, clock, login, failedDone, wiped>>

\* The caller takes the status.
StatusTaken ==
    /\ lockStatus # None
    /\ lockStatus' = None
    /\ UNCHANGED <<store, clock, login, failedDone, wiped>>

\* ------------------------------------------------------- the store's callers
SaveEntry(entry) ==
    /\ NoCallPending
    /\ Len(getEntries) < MaxEntries
    /\ saveEntry(entry)
    /\ UNCHANGED <<clock, login, lockStatus, failedDone, wiped>>

DeleteEntry(id) ==
    /\ NoCallPending
    /\ deleteEntry(id)
    /\ UNCHANGED <<clock, login, lockStatus, failedDone, wiped>>

\* What a reset is about to remove.
Summary ==
    Some([hadVault |-> hasVault,
          hadEntries |-> getEntries # <<>>,
          hadFailures |-> getSecurityState.count > 0,
          wasLocked |-> getSecurityState.lockoutUntil > clock])

ResetVault ==
    /\ NoCallPending
    /\ resetVault
    /\ failedDone' = 0
    /\ wiped' = Summary
    /\ UNCHANGED <<clock, login, lockStatus>>

\* Time passes.
Tick ==
    /\ \E t \in TimePoints : t > clock /\ clock' = t
    /\ UNCHANGED <<store, login, lockStatus, failedDone, wiped>>

\* ------------------------------------------------------------------- App
\* The view state, session and handlers of the App component.  Presentation
\* state (form fields, the add dialog, isAuthLoading, lockoutTimer) is left
\* out, and with it the disabling of buttons it drives.

NoSession ==
    /\ masterKey' = None
    /\ entries' = <<>>
    /\ revealedIds' = {}
    /\ decryptedValues' = <<>>

\* The page is loaded or reloaded: component state starts over and whatever
\* was awaiting is gone.  Lines 18-37.
PageLoad ==
    /\ viewState' = "LOADING"
    /\ NoSession
    /\ authError' = <<>>
    /\ registerCall' = None
    /\ addCall' = None
    /\ revealCall' = None
    /\ login' = [i \in Procs |-> Idle]
    /\ lockStatus' = None
    /\ UNCHANGED <<alerted, typed, clock>>

Reload ==
    /\ viewState # "LOADING"
    /\ PageLoad
    /\ UNCHANGED <<store, failedDone, wiped>>

\* The initial check, lines 40-51.
Mount ==
    /\ viewState = "LOADING"
    /\ viewState' = IF hasVault THEN "LOGIN" ELSE "ONBOARDING"
    /\ UNCHANGED <<service, masterKey, authError, entries, revealedIds,
                   decryptedValues, registerCall, addCall, revealCall, alerted,
                   typed>>

\* handleRegister, lines 69-83: the checks, then the wait.
HandleRegister(passwordInput, confirmPasswordInput) ==
    /\ viewState = "ONBOARDING"
    /\ registerCall = None
    /\ IF Len(passwordInput) < MinPasswordLength
       THEN /\ authError' = <<"Password must be at least 8 characters.">>
            /\ UNCHANGED registerCall
       ELSE IF passwordInput # confirmPasswordInput
       THEN /\ authError' = <<"Passwords do not match.">>
            /\ UNCHANGED registerCall
       ELSE /\ registerCall' = Some(passwordInput)
            /\ UNCHANGED authError
    /\ UNCHANGED <<service, viewState, masterKey, entries, revealedIds,
                   decryptedValues, addCall, revealCall, alerted, typed>>

\* handleRegister, lines 84-88: registerUser has returned the key.
HandleRegisterDone(salt) ==
    /\ registerCall # None
    /\ RegisterUser(registerCall[1], salt)
    /\ masterKey' = Some(deriveKey(registerCall[1], salt))
    /\ viewState' = "VAULT"
    /\ entries' = <<>>
    /\ registerCall' = None
    /\ UNCHANGED <<authError, revealedIds, decryptedValues, addCall, revealCall,
                   alerted, typed>>

\* handleLogin, lines 96-103: loginUser is called with the password typed.
HandleLogin(passwordInput) ==
    /\ viewState = "LOGIN"
    /\ LoginCall(1, passwordInput)
    /\ authError' = <<>>
    /\ UNCHANGED <<viewState, masterKey, entries, revealedIds, decryptedValues,
                   registerCall, addCall, revealCall, alerted, typed>>

\* handleLogin, lines 103-116: the result of loginUser is in (the countdown
\* started at lines 112-115 is presentation state).
HandleLoginDone ==
    /\ login[1].pc = "returned"
    /\ LoginTaken(1)
    /\ LET result == login[1].result[1] IN
       IF result.success /\ result.key # None
       THEN /\ masterKey' = result.key
            /\ entries' = getEntries
            /\ viewState' = "VAULT"
            /\ UNCHANGED authError
       ELSE /\ authError' = result.error[1]
            /\ UNCHANGED <<masterKey, entries, viewState>>
    /\ UNCHANGED <<revealedIds, decryptedValues, registerCall, addCall,
                   revealCall, alerted, typed>>

\* handleLogout, lines 124-132.
HandleLogout ==
    /\ viewState = "VAULT"
    /\ NoSession
    /\ viewState' = "LOGIN"
    /\ authError' = <<>>
    /\ UNCHANGED <<service, registerCall, addCall, revealCall, alerted, typed>>

\* Successful logins on record.
SuccessCount ==
    Cardinality({k \in DOMAIN getSecurityState.logs : getSecurityState.logs[k].success})

\* handleAddEntry, lines 134-139: up to the await of encryptData.
HandleAddEntry(newEntryPassword) ==
    /\ viewState = "VAULT"
    /\ addCall = None
    /\ masterKey # None
    /\ Cardinality(DOMAIN typed) < MaxAdds
    /\ addCall' = Some([text |-> newEntryPassword, key |-> masterKey[1]])
    /\ UNCHANGED <<service, viewState, masterKey, authError, entries,
                   revealedIds, decryptedValues, registerCall, revealCall,
                   alerted, typed>>

\* handleAddEntry, lines 139-157: encryptData has resolved with the IV it
\* drew; the entry gets a new UUID and is saved and shown.
HandleAddEntryDone(iv, id) ==
    /\ addCall # None
    /\ id \notin DOMAIN typed
    /\ LET newEntry == NewEntry(id, encryptData(addCall[1].text, addCall[1].key, iv),
                                clock)
       IN /\ saveEntry(newEntry)
          /\ entries' = Append(entries, newEntry)
    /\ typed' = (id :> [text |-> addCall[1].text, logins |-> SuccessCount]) @@ typed
    /\ addCall' = None
    /\ UNCHANGED <<clock, login, lockStatus, failedDone, wiped, viewState,
                   masterKey, authError, revealedIds, decryptedValues,
                   registerCall, revealCall, alerted>>

Without(f, id) == [k \in DOMAIN f \ {id} |-> f[k]]

\* handleDeleteEntry, lines 164-174, confirmed.
HandleDeleteEntry(id) ==
    /\ viewState = "VAULT"
    /\ \E k \in DOMAIN entries : entries[k].id = id
    /\ deleteEntry(id)
    /\ entries' = SelectSeq(entries, LAMBDA e : e.id # id)
    /\ decryptedValues' = Without(decryptedValues, id)
    /\ UNCHANGED <<clock, login, lockStatus, failedDone, wiped, viewState,
                   masterKey, authError, revealedIds, registerCall, addCall,
                   revealCall, alerted, typed>>

\* toggleReveal, lines 176-187 and 196-198: hide, show from the cache, or
\* start decrypting with the key and the revealed set of this render.
ToggleReveal(entry) ==
    /\ viewState = "VAULT"
    /\ \E k \in DOMAIN entries : entries[k] = entry
    /\ IF entry.id \in revealedIds
       THEN /\ revealedIds' = revealedIds \ {entry.id}
            /\ UNCHANGED revealCall
       ELSE IF masterKey = None
       THEN UNCHANGED <<revealedIds, revealCall>>
       ELSE IF entry.id \notin DOMAIN decryptedValues
       THEN /\ revealCall = None
            /\ revealCall' = Some([entry |-> entry, key |-> masterKey[1],
                                   revealedIds |-> revealedIds])
            /\ UNCHANGED revealedIds
       ELSE /\ revealedIds' = revealedIds \cup {entry.id}
            /\ UNCHANGED revealCall
    /\ UNCHANGED <<service, viewState, masterKey, authError, entries,
                   decryptedValues, registerCall, addCall, alerted, typed>>

\* toggleReveal, lines 187-198: decryptData has resolved or thrown.
ToggleRevealDone ==
    /\ revealCall # None
    /\ LET c == revealCall[1]
           plaintext == decryptData(c.entry.encryptedPassword, c.entry.iv, c.key)
       IN IF plaintext # None
          THEN /\ decryptedValues' = (c.entry.id :> plaintext[1]) @@ decryptedValues
               /\ revealedIds' = c.revealedIds \cup {c.entry.id}
               /\ UNCHANGED alerted
          ELSE /\ alerted' = TRUE
               /\ UNCHANGED <<decryptedValues, revealedIds>>
    /\ revealCall' = None
    /\ UNCHANGED <<service, viewState, masterKey, authError, entries,
                   registerCall, addCall, typed>>

\* resetVault of the App, lines 202-207, confirmed: the store is emptied and
\* the page reloaded.
HandleResetVault ==
    /\ viewState = "LOGIN"
    /\ resetVault
    /\ failedDone' = 0
    /\ wiped' = Summary
    /\ PageLoad

\* ------------------------------------------------------------ specification
Init ==
    /\ lsMetadata = None
    /\ lsEntries = None
    /\ lsAttempts = None
    /\ clock = StartTime
    /\ login = [i \in Procs |-> Idle]
    /\ lockStatus = None
    /\ failedDone = 0
    /\ wiped = None
    /\ viewState = "LOADING"
    /\ masterKey = None
    /\ authError = <<>>
    /\ entries = <<>>
    /\ revealedIds = {}
    /\ decryptedValues = <<>>
    /\ registerCall = None
    /\ addCall = None
    /\ revealCall = None
    /\ alerted = FALSE
    /\ typed = <<>>
    /\ initCall = None

\* The auth service alone: one caller, one call at a time.
Next ==
    \/ (\E p \in Passwords, s \in Salts : RegisterUser(p, s)) /\ UNCHANGED <<ui, initCall>>
    \/ (\E p \in Passwords : LoginCall(1, p)) /\ UNCHANGED <<ui, initCall>>
    \/ LoginVerify(1) /\ UNCHANGED <<ui, initCall>>
    \/ LoginDerived(1) /\ UNCHANGED <<ui, initCall>>
    \/ LoginTaken(1) /\ UNCHANGED <<ui, initCall>>
    \/ GetLockoutStatus /\ UNCHANGED <<ui, initCall>>
    \/ StatusTaken /\ UNCHANGED <<ui, initCall>>
    \/ ResetVault /\ UNCHANGED <<ui, initCall>>
    \/ Tick /\ UNCHANGED <<ui, initCall>>

Spec == Init /\ [][Next]_vars

\* The store with its entries, at one instant.
NextStore ==
    \/ (\E p \in Passwords, s \in Salts : RegisterUser(p, s)) /\ UNCHANGED <<ui, initCall>>
    \/ (\E p \in Passwords : LoginCall(1, p)) /\ UNCHANGED <<ui, initCall>>
    \/ LoginVerify(1) /\ UNCHANGED <<ui, initCall>>
    \/ LoginDerived(1) /\ UNCHANGED <<ui, initCall>>
    \/ LoginTaken(1) /\ UNCHANGED <<ui, initCall>>
    \/ GetLockoutStatus /\ UNCHANGED <<ui, initCall>>
    \/ StatusTaken /\ UNCHANGED <<ui, initCall>>
    \/ (\E e \in SampleEntries : SaveEntry(e)) /\ UNCHANGED <<ui, initCall>>
    \/ (\E id \in Ids : DeleteEntry(id)) /\ UNCHANGED <<ui, initCall>>
    \/ ResetVault /\ UNCHANGED <<ui, initCall>>

SpecStore == Init /\ [][NextStore]_vars

\* Invocations of loginUser that overlap at their awaits, in rapid succession.
NextConc ==
    \/ (\E p \in Passwords, s \in Salts : RegisterUser(p, s)) /\ UNCHANGED <<ui, initCall>>
    \/ (\E i \in Procs, p \in Passwords : LoginCall(i, p)) /\ UNCHANGED <<ui, initCall>>
    \/ (\E i \in Procs : LoginVerify(i)) /\ UNCHANGED <<ui, initCall>>
    \/ (\E i \in Procs : LoginDerived(i)) /\ UNCHANGED <<ui, initCall>>
    \/ (\E i \in Procs : LoginTaken(i)) /\ UNCHANGED <<ui, initCall>>

SpecConc == Init /\ [][NextConc]_vars

\* The App at one instant: its handlers, interleaved at their awaits.
NextApp ==
    \/ Mount /\ UNCHANGED initCall
    \/ Reload /\ UNCHANGED initCall
    \/ (\E p, c \in FormPasswords : HandleRegister(p, c)) /\ UNCHANGED initCall
    \/ (\E s \in Salts : HandleRegisterDone(s)) /\ UNCHANGED initCall
    \/ (\E p \in Passwords : HandleLogin(p)) /\ UNCHANGED initCall
    \/ LoginVerify(1) /\ UNCHANGED <<ui, initCall>>
    \/ LoginDerived(1) /\ UNCHANGED <<ui, initCall>>
    \/ HandleLoginDone /\ UNCHANGED initCall
    \/ HandleLogout /\ UNCHANGED initCall
    \/ (\E t \in Secrets : HandleAddEntry(t)) /\ UNCHANGED initCall
    \/ (\E iv \in IVs, id \in Ids : HandleAddEntryDone(iv, id)) /\ UNCHANGED initCall
    \/ (\E id \in Ids : HandleDeleteEntry(id)) /\ UNCHANGED initCall
    \/ (\E k \in DOMAIN entries : ToggleReveal(entries[k])) /\ UNCHANGED initCall
    \/ ToggleRevealDone /\ UNCHANGED initCall
    \/ HandleResetVault /\ UNCHANGED initCall

SpecApp == Init /\ [][NextApp]_vars

\* The service with initVault taken one storage write at a time; nothing else
\* runs inside the synchronous initVault, but it can stop.
NextCrash ==
    \/ (\E p \in Passwords, s \in Salts : RegisterUserBegin(p, s)) /\ UNCHANGED ui
    \/ InitVaultWrite /\ UNCHANGED ui
    \/ InitVaultStops /\ UNCHANGED ui
    \/ initCall = None /\ (\E p \in Passwords : LoginCall(1, p))
          /\ UNCHANGED <<ui, initCall>>
    \/ initCall = None /\ LoginVerify(1) /\ UNCHANGED <<ui, initCall>>
    \/ initCall = None /\ LoginDerived(1) /\ UNCHANGED <<ui, initCall>>
    \/ initCall = None /\ LoginTaken(1) /\ UNCHANGED <<ui, initCall>>
    \/ initCall = None /\ ResetVault /\ UNCHANGED <<ui, initCall>>

SpecCrash == Init /\ [][NextCrash]_vars

\* Logins with right and wrong passwords that read the same store at the same
\* instant, on a vault or on none.
NextLeak ==
    \/ (\E p \in Passwords, s \in Salts : RegisterUser(p, s))
          /\ UNCHANGED <<ui, initCall>>
    \/ (\E i \in Procs, p \in Attempts : LoginCall(i, p))
          /\ UNCHANGED <<ui, initCall>>
    \/ (\E i \in Procs : LoginVerify(i)) /\ UNCHANGED <<ui, initCall>>
    \/ (\E i \in Procs : LoginDerived(i)) /\ UNCHANGED <<ui, initCall>>
    \/ (\E i \in Procs : LoginTaken(i)) /\ UNCHANGED <<ui, initCall>>

SpecLeak == Init /\ [][NextLeak]_vars

\* ------------------------------------------------------------------ claims
IsPrefix(a, b) == Len(a) <= Len(b) /\ SubSeq(b, 1, Len(a)) = a

AllFailures(logs) == \A k \in DOMAIN logs : ~logs[k].success

\* The invocation's password is the master password of the metadata it read.
IsMasterPassword(l) ==
    /\ l.metadata # None
    /\ hashPassword(l.password, l.metadata[1].salt) = l.metadata[1].authHash

\* The invocation got as far as checking the password.
Evaluated(l) ==
    /\ l.pc \in {"deriveKey", "returned"}
    /\ ~(l.securityState.lockoutUntil > l.now)
    /\ l.metadata # None

\* C1: a call of loginUser that reads a lockoutUntil strictly greater than the
\* current time returns at once, with success = false and no key, whatever the
\* password, the master password included.
C1_LockedOutRejected ==
    \A i \in Procs :
        LET l == login[i] IN
        (l.pc # "idle" /\ l.securityState.lockoutUntil > l.now) =>
            /\ l.pc = "returned"
            /\ l.result[1].success = FALSE
            /\ l.result[1].key = None

C1_Witness ==
    /\ login[1].pc = "returned"
    /\ login[1].securityState.lockoutUntil > login[1].now
    /\ IsMasterPassword(login[1])
    /\ login[1].result[1].success = FALSE

\* C2: on a fresh vault the third consecutive wrong password returns the
\* lockout error and sets lockoutUntil 30000 ms after that attempt;
\* getLockoutStatus then answers isLocked = true while the clock is before
\* lockoutUntil and isLocked = false once it has passed it, and a login with
\* the master password made after that succeeds with a key.
C2_ThreeStrikes ==
    LET l == login[1]
        s == getSecurityState
    IN
    /\ ( /\ l.pc = "returned"
         /\ Evaluated(l)
         /\ ~IsMasterPassword(l)
         /\ Len(l.securityState.logs) = 2
         /\ AllFailures(l.securityState.logs) )
       => /\ l.result[1] = Failure(ErrTooMany)
          /\ s.lockoutUntil = l.now + LOCKOUT_DURATION_MS
    /\ ( /\ lockStatus # None
         /\ Len(s.logs) = 3
         /\ AllFailures(s.logs) )
       => /\ lockStatus[1].now < s.logs[3].timestamp + LOCKOUT_DURATION_MS
             => lockStatus[1].returned.isLocked
          /\ lockStatus[1].now > s.logs[3].timestamp + LOCKOUT_DURATION_MS
             => ~lockStatus[1].returned.isLocked
    /\ ( /\ l.pc = "returned"
         /\ IsMasterPassword(l)
         /\ Len(l.securityState.logs) = 3
         /\ AllFailures(l.securityState.logs)
         /\ l.now > l.securityState.logs[3].timestamp + LOCKOUT_DURATION_MS )
       => /\ l.result[1].success
          /\ l.result[1].key # None

C2_Witness ==
    /\ login[1].pc = "returned"
    /\ IsMasterPassword(login[1])
    /\ Len(login[1].securityState.logs) = 3
    /\ AllFailures(login[1].securityState.logs)
    /\ login[1].now > login[1].securityState.logs[3].timestamp + LOCKOUT_DURATION_MS
    /\ login[1].result[1].success
    /\ lockStatus # None
    /\ ~lockStatus[1].returned.isLocked

\* C3: a call that is not locked out and finds metadata succeeds exactly when
\* hashPassword(password, metadata.salt) equals metadata.authHash, the key it
\* returns is deriveKey(password, metadata.salt), and no failure carries a key.
C3_SuccessIffHashMatches ==
    \A i \in Procs :
        LET l == login[i] IN
        l.pc = "returned" =>
            /\ Evaluated(l) =>
                  /\ l.result[1].success <=> IsMasterPassword(l)
                  /\ l.result[1].success =>
                        l.result[1].key =
                            Some(deriveKey(l.password, l.metadata[1].salt))
            /\ ~l.result[1].success =>
                  l.result[1].key = None /\ l.result[1].error # None

C3_Witness ==
    /\ login[1].pc = "returned"
    /\ Evaluated(login[1])
    /\ login[1].securityState.count > 0
    /\ login[1].result[1].success
    /\ login[1].result[1].key # None

\* C4: a successful login leaves count = 0, lockoutUntil = 0 and the logs it
\* read followed by one success entry; no step of loginUser shortens the
\* persisted logs or changes an entry already in them.
C4_SuccessState ==
    LET l == login[1] IN
    (l.pc \in {"deriveKey", "returned"} /\ Evaluated(l) /\ IsMasterPassword(l)) =>
        getSecurityState =
            [count |-> 0, lockoutUntil |-> 0,
             logs |-> Append(l.securityState.logs,
                             [timestamp |-> l.now, success |-> TRUE])]

C4_SuccessKeepsLogs ==
    /\ []C4_SuccessState
    /\ [][login' # login =>
            IsPrefix(getSecurityState.logs, getSecurityState'.logs)]_vars

C4_Witness ==
    /\ login[1].pc = "returned"
    /\ login[1].result[1].success
    /\ login[1].securityState.count = 2
    /\ Len(getSecurityState.logs) = 3
    /\ getSecurityState.count = 0

\* C5: with invocations of loginUser overlapping at their awaits, once three
\* wrong-password attempts have completed with no success among them, the
\* persisted count is at least 3 and lockoutUntil is set.
C5_NoLostFailure ==
    failedDone >= MAX_ATTEMPTS =>
        /\ getSecurityState.count >= MAX_ATTEMPTS
        /\ getSecurityState.lockoutUntil # 0

\* C6: when loginUser has a result for an attempt whose password it checked,
\* the persisted SecurityState already holds that attempt: its log entry at
\* the end of the logs, and its count and lockoutUntil.
C6_PersistedBeforeReturn ==
    LET l == login[1]
        s == getSecurityState
        n == Len(l.securityState.logs) + 1
    IN
    (l.pc = "returned" /\ Evaluated(l)) =>
        /\ lsAttempts # None
        /\ Len(s.logs) = n
        /\ s.logs[n] = [timestamp |-> l.now, success |-> l.result[1].success]
        /\ l.result[1].success => s.count = 0
        /\ ~l.result[1].success =>
              /\ s.count = l.securityState.count + 1
              /\ l.result[1].error = Some(ErrTooMany) =>
                    s.lockoutUntil = l.now + LOCKOUT_DURATION_MS

C6_Witness ==
    /\ login[1].pc = "returned"
    /\ Evaluated(login[1])
    /\ login[1].result[1].error = Some(ErrTooMany)
    /\ getSecurityState.lockoutUntil = login[1].now + LOCKOUT_DURATION_MS
    /\ clock > login[1].now

\* C7 as stated: an entry added before a successful login and revealed
\* after it shows exactly the secret that was typed, whatever the secret.
AddedBeforeLogin(id) == typed[id].logins < SuccessCount

WellFormed(text) == \A k \in DOMAIN text : text[k] # LoneSurrogate

FreshVault(password, salt) ==
    /\ lsMetadata = Some([salt |-> salt, authHash |-> hashPassword(password, salt)])
    /\ lsEntries = Some(<<>>)
    /\ lsAttempts = Some(ZeroState)

C8_FirstLogin ==
    LET l == login[1] IN
    (l.pc = "returned" /\ IsMasterPassword(l) /\ l.securityState = ZeroState) =>
        /\ l.result[1].success
        /\ l.result[1].key = Some(deriveKey(l.password, l.metadata[1].salt))

C8_ResetThenFresh ==
    /\ [][ResetVault => (~hasVault /\ lsEntries = None /\ lsAttempts = None)']_vars
    /\ [][\A p \in Passwords, s \in Salts :
            RegisterUser(p, s) => FreshVault(p, s)']_vars
    /\ []C8_FirstLogin

C8_Witness ==
    /\ ~hasVault
    /\ wiped = Some([hadVault |-> TRUE, hadEntries |-> TRUE,
                     hadFailures |-> TRUE, wasLocked |-> TRUE])

\* C9: getLockoutStatus changes nothing in the store: metadata, entries and
\* SecurityState are the same after it as before, also when the record is
\* absent or the lockout has expired.
C9_StatusReadOnly ==
    [][lockStatus' # lockStatus => UNCHANGED store]_vars

C9_Witness ==
    /\ lockStatus # None
    /\ lockStatus[1].lockoutUntil # 0
    /\ lockStatus[1].lockoutUntil <= lockStatus[1].now
    /\ ~lockStatus[1].returned.isLocked

\* C10: loginUser and getLockoutStatus decide the lockout alike: at the same
\* clock value and lockoutUntil, loginUser rejects with the lockout error
\* exactly when getLockoutStatus answers isLocked, with the same seconds.
C10_SameComparison ==
    /\ LET s == getSecurityState IN
       /\ LoginIsLocked(s, clock) <=> LockoutStatus(s.lockoutUntil, clock).isLocked
       /\ LoginIsLocked(s, clock) =>
             LoginRemaining(s, clock) = LockoutStatus(s.lockoutUntil, clock).remaining
    /\ \A i \in Procs :
          LET l == login[i] IN
          ( /\ l.pc = "returned"
            /\ lockStatus # None
            /\ lockStatus[1].now = l.now
            /\ lockStatus[1].lockoutUntil = l.securityState.lockoutUntil )
          => /\ lockStatus[1].returned.isLocked <=>
                   l.result[1].error =
                       Some(ErrLocked(lockStatus[1].returned.remaining))
             /\ ~lockStatus[1].returned.isLocked =>
                   \A r \in 0..(LOCKOUT_DURATION_MS \div 1000) :
                       l.result[1].error # Some(ErrLocked(r))

C10_Witness ==
    /\ login[1].pc = "returned"
    /\ lockStatus # None
    /\ lockStatus[1].now = login[1].now
    /\ lockStatus[1].lockoutUntil = login[1].securityState.lockoutUntil
    /\ lockStatus[1].returned.isLocked
    /\ lockStatus[1].returned.remaining = 1
    /\ login[1].result[1].error = Some(ErrLocked(1))

\* The seconds a lockout error can carry.
LockSeconds == 0..(LOCKOUT_DURATION_MS \div 1000)

\* The invocation read a lockout that ends at the very instant it read the clock.
AtBoundary(l) ==
    /\ l.pc # "idle"
    /\ l.securityState.lockoutUntil # 0
    /\ l.securityState.lockoutUntil = l.now

\* C11 as stated: an attempt made at the instant now = lockoutUntil (non-zero)
\* is still locked: loginUser rejects it with the lockout error and
\* getLockoutStatus answers isLocked = true.
C11_BoundaryStillLocked ==
    /\ \A i \in Procs :
          LET l == login[i] IN
          AtBoundary(l) =>
              /\ l.pc = "returned"
              /\ \E r \in LockSeconds : l.result[1] = Failure(ErrLocked(r))
    /\ ( /\ lockStatus # None
         /\ lockStatus[1].lockoutUntil # 0
         /\ lockStatus[1].lockoutUntil = lockStatus[1].now )
       => lockStatus[1].returned.isLocked

\* C11, amended: an attempt made at the instant now = lockoutUntil (non-zero)
\* is already unlocked: loginUser never answers it with the lockout error and
\* goes on to the metadata and the password, succeeding exactly on the master
\* password, and getLockoutStatus answers isLocked = false, remaining = 0.
C11_BoundaryUnlocked ==
    /\ \A i \in Procs :
          LET l == login[i] IN
          (AtBoundary(l) /\ l.pc = "returned") =>
              /\ \A r \in LockSeconds : l.result[1].error # Some(ErrLocked(r))
              /\ l.metadata # None =>
                    (l.result[1].success <=> IsMasterPassword(l))
    /\ ( /\ lockStatus # None
         /\ lockStatus[1].lockoutUntil # 0
         /\ lockStatus[1].lockoutUntil = lockStatus[1].now )
       => lockStatus[1].returned = [isLocked |-> FALSE, remaining |-> 0]

C11_Witness ==
    /\ AtBoundary(login[1])
    /\ login[1].pc = "returned"
    /\ IsMasterPassword(login[1])
    /\ login[1].result[1].success
    /\ login[1].result[1].key # None

\* The log entry of the invocation's attempt.
AttemptLog(l) == [timestamp |-> l.now, success |-> l.result[1].success]

\* C12 as stated: every call of loginUser, whatever its outcome, has appended
\* one log entry for the attempt to the persisted SecurityState by the time it
\* returns.
C12_EveryCallLogged ==
    \A i \in Procs :
        LET l == login[i] IN
        l.pc = "returned" =>
            getSecurityState.logs = Append(l.securityState.logs, AttemptLog(l))

\* C12, amended: a call that reaches the password comparison (success or wrong
\* password) appends one log entry for the attempt; a call rejected because
\* locked out or because the metadata is missing writes nothing, and the
\* persisted SecurityState is the one it read.
C12_Logged ==
    LET l == login[1] IN
    l.pc = "returned" =>
        /\ Evaluated(l) =>
              getSecurityState.logs = Append(l.securityState.logs, AttemptLog(l))
        /\ ~Evaluated(l) => getSecurityState = l.securityState

C12_OnlyEvaluatedCallsLogged ==
    /\ []C12_Logged
    /\ [][(login[1].pc = "idle" /\ login'[1].pc = "returned") => UNCHANGED store]_vars

C12_Witness ==
    /\ login[1].pc = "returned"
    /\ login[1].result[1].error = Some(ErrLocked(LOCKOUT_DURATION_MS \div 1000))
    /\ Len(login[1].securityState.logs) = MAX_ATTEMPTS
    /\ getSecurityState = login[1].securityState

\* C13: the persisted logs are append-only in every reachable state, also when
\* invocations of loginUser overlap: across any step other than initVault or
\* resetVault (which leave the zeroed record or none), the logs before the
\* step are a prefix of the logs after it.
C13_LogsAppendOnly ==
    [][ \/ lsAttempts' = Some(ZeroState)
        \/ lsAttempts' = None
        \/ IsPrefix(getSecurityState.logs, getSecurityState'.logs) ]_vars

\* C14: the persisted metadata (salt and authHash) is written or removed only
\* by initVault, through registerUser, and by resetVault: every step of
\* loginUser, getLockoutStatus, saveEntry, deleteEntry and updateSecurityState
\* leaves it as it was.
C14_MetadataImmutable ==
    [][ lsMetadata' # lsMetadata =>
            \/ \E p \in Passwords, s \in Salts : RegisterUser(p, s)
            \/ ResetVault ]_vars

C14_Witness ==
    /\ hasVault
    /\ getEntries # <<>>
    /\ Len(getSecurityState.logs) >= 2
    /\ getSecurityState.count = 0
    /\ login[1].pc = "returned"
    /\ login[1].result[1].success
    /\ lockStatus # None

\* C15: initVault does not partially apply: wherever execution can stop, the
\* metadata, entries and security records are all absent or all present, so
\* hasVault() implies that the entries record and the security record exist.
C15_InitVaultAllOrNothing ==
    /\ \/ lsMetadata = None /\ lsEntries = None /\ lsAttempts = None
       \/ lsMetadata # None /\ lsEntries # None /\ lsAttempts # None
    /\ hasVault => (lsEntries # None /\ lsAttempts # None)

\* The sequence without its entries of the given id, the others in order.
RECURSIVE RemoveId(_, _)
RemoveId(seq, id) ==
    IF seq = <<>> THEN <<>>
    ELSE IF Head(seq).id = id THEN RemoveId(Tail(seq), id)
    ELSE <<Head(seq)>> \o RemoveId(Tail(seq), id)

HasId(seq, id) == \E k \in DOMAIN seq : seq[k].id = id

C17_NoPlaintextForDeletedEntry ==
    viewState = "VAULT" =>
        \A id \in DOMAIN decryptedValues : HasId(entries, id)

\* C18: while the view is LOGIN the session holds no key, no entries, no
\* revealed ids and no decrypted plaintext, from handleLogout until the next
\* successful login, also when an encryption of handleAddEntry or a
\* decryption of toggleReveal was pending at the logout.
C18_LoggedOutHoldsNothing ==
    viewState = "LOGIN" =>
        /\ masterKey = None
        /\ entries = <<>>
        /\ revealedIds = {}
        /\ decryptedValues = <<>>

\* The invocation checked a password that is not the master password.
WrongPassword(l) == l.pc = "returned" /\ Evaluated(l) /\ ~IsMasterPassword(l)

\* The invocation found no lockout and no metadata.
NoMetadata(l) ==
    /\ l.pc = "returned"
    /\ ~(l.securityState.lockoutUntil > l.now)
    /\ l.metadata = None

\* Two invocations read the same persisted state at the same instant.
SameReads(l, m) ==
    /\ l.securityState = m.securityState
    /\ l.now = m.now
    /\ l.metadata = m.metadata

\* Any two wrong passwords on the same reads: the same error, and the same
\* successor state, which is what the store holds once both have written.
SameFailureForWrongPasswords ==
    \A i, j \in Procs :
        LET l == login[i]
            m == login[j]
        IN (WrongPassword(l) /\ WrongPassword(m) /\ SameReads(l, m)) =>
               /\ l.result = m.result
               /\ i # j => getSecurityState = FailureState(l.securityState, l.now)

\* C19 as stated: any two wrong passwords on the same persisted state and
\* clock get the same error and the same successor state, and every failure
\* that is not a lockout, the missing metadata included, carries the one
\* generic error of a password mismatch.
C19_OneGenericError ==
    /\ SameFailureForWrongPasswords
    /\ \A i \in Procs :
          LET l == login[i] IN
          (WrongPassword(l) \/ NoMetadata(l)) =>
              l.result[1].error \in {Some(ErrInvalid), Some(ErrTooMany)}

\* C19, amended: any two wrong passwords on the same persisted state and
\* clock get the same error and the same successor state (the error tells the
\* count reached, never the password); missing metadata is reported by its
\* own corruption error, different from both errors of a password mismatch.
C19_WrongPasswordsAlike ==
    /\ SameFailureForWrongPasswords
    /\ \A i \in Procs :
          LET l == login[i] IN
          /\ WrongPassword(l) =>
                l.result[1] = Failure(FailureError(l.securityState))
          /\ NoMetadata(l) =>
                /\ l.result[1] = Failure(ErrCorrupted)
                /\ l.result[1].error # Some(ErrInvalid)
                /\ l.result[1].error # Some(ErrTooMany)

C19_Witness ==
    /\ WrongPassword(login[1])
    /\ WrongPassword(login[2])
    /\ SameReads(login[1], login[2])
    /\ login[1].password # login[2].password
    /\ login[1].securityState.count = 1
    /\ login[1].result[1].error = Some(ErrInvalid)
    /\ login[2].result[1].error = Some(ErrInvalid)

\* C20: a call of loginUser on a store with no metadata record and no lockout
\* in force returns the corruption error and no key, and writes nothing: no
\* security record is created, no log entry appended, no failure counted.
C20_Corrupted ==
    \A i \in Procs :
        LET l == login[i] IN
        (l.pc # "idle" /\ lsMetadata = None /\ ~(l.securityState.lockoutUntil > l.now)) =>
            /\ l.pc = "returned"
            /\ l.result[1] = Failure(ErrCorrupted)
            /\ l.result[1].key = None
            /\ lsAttempts = None
            /\ getSecurityState = l.securityState

C20_MissingMetadataFailsClean ==
    /\ []C20_Corrupted
    /\ [][(login[1].pc = "idle" /\ login'[1].pc # "idle" /\ lsMetadata = None)
             => UNCHANGED store]_vars

C20_Witness ==
    /\ login[1].pc = "returned"
    /\ login[1].result[1] = Failure(ErrCorrupted)
    /\ wiped # None
    /\ wiped[1].hadFailures
    /\ lsAttempts = None
    /\ ~hasVault

\* r is the ceiling of ms / 1000: the least whole number of seconds that
\* covers ms milliseconds.
IsCeilingOfSeconds(r, ms) == (r - 1) * 1000 < ms /\ ms <= r * 1000

\* C21: while a lockout is in force (lockoutUntil > now), the remaining seconds
\* given by getLockoutStatus and by the lockout rejection of loginUser are
\* ceil((lockoutUntil - now) / 1000) and lie in 1..30; with no lockout in
\* force getLockoutStatus gives remaining = 0.
C21_RemainingSeconds ==
    /\ lockStatus # None =>
          LET c == lockStatus[1] IN
          IF c.lockoutUntil > c.now
          THEN /\ c.returned.isLocked
               /\ IsCeilingOfSeconds(c.returned.remaining, c.lockoutUntil - c.now)
               /\ c.returned.remaining \in 1..(LOCKOUT_DURATION_MS \div 1000)
          ELSE c.returned.remaining = 0
    /\ \A i \in Procs :
          LET l == login[i] IN
          (l.pc = "returned" /\ l.securityState.lockoutUntil > l.now) =>
              \E r \in 1..(LOCKOUT_DURATION_MS \div 1000) :
                  /\ IsCeilingOfSeconds(r, l.securityState.lockoutUntil - l.now)
                  /\ l.result[1].error = Some(ErrLocked(r))

C21_Witness ==
    /\ lockStatus # None
    /\ lockStatus[1].lockoutUntil - lockStatus[1].now = LOCKOUT_DURATION_MS - 1
    /\ lockStatus[1].returned.remaining = LOCKOUT_DURATION_MS \div 1000
    /\ login[1].pc = "returned"
    /\ login[1].securityState.lockoutUntil - login[1].now = LOCKOUT_DURATION_MS - 1
    /\ login[1].result[1].error = Some(ErrLocked(LOCKOUT_DURATION_MS \div 1000))

\* C22: the expiry of a lockout does not reset the failure count: once a
\* lockout has been set and no login has succeeded since, the persisted count
\* is still at least 3 after it has expired, and every further wrong password
\* sets a new lockout of 30 seconds at once; a successful login sets the count
\* back to 0.
C22_ExpiryKeepsCount ==
    LET l == login[1]
        s == getSecurityState
    IN
    /\ s.lockoutUntil # 0 => s.count >= MAX_ATTEMPTS
    /\ (WrongPassword(l) /\ l.securityState.lockoutUntil # 0) =>
          /\ l.securityState.lockoutUntil <= l.now
          /\ l.result[1] = Failure(ErrTooMany)
          /\ s.count = l.securityState.count + 1
          /\ s.lockoutUntil = l.now + LOCKOUT_DURATION_MS
    /\ (l.pc = "returned" /\ l.result[1].success) => s.count = 0

C22_Witness ==
    /\ WrongPassword(login[1])
    /\ login[1].securityState.count = MAX_ATTEMPTS
    /\ login[1].securityState.lockoutUntil # 0
    /\ login[1].securityState.lockoutUntil < login[1].now
    /\ login[1].result[1] = Failure(ErrTooMany)
    /\ getSecurityState.count = MAX_ATTEMPTS + 1
    /\ getSecurityState.lockoutUntil = login[1].now + LOCKOUT_DURATION_MS

\* C23: with registerUser, loginUser, getLockoutStatus and resetVault called one
\* after the other, the persisted lockoutUntil is non-zero exactly when the
\* persisted count is at least 3, and then it is the timestamp of the last log
\* entry plus 30000 ms.
C23_LockoutIffCount ==
    LET s == getSecurityState IN
    /\ s.lockoutUntil # 0 <=> s.count >= MAX_ATTEMPTS
    /\ s.lockoutUntil # 0 =>
          /\ s.logs # <<>>
          /\ s.lockoutUntil = s.logs[Len(s.logs)].timestamp + LOCKOUT_DURATION_MS

C23_Witness ==
    LET s == getSecurityState IN
    /\ s.count = MAX_ATTEMPTS + 1
    /\ Len(s.logs) = MAX_ATTEMPTS + 1
    /\ s.logs[Len(s.logs)].timestamp > s.logs[MAX_ATTEMPTS].timestamp
    /\ s.lockoutUntil = s.logs[Len(s.logs)].timestamp + LOCKOUT_DURATION_MS
    /\ lockStatus # None
    /\ lockStatus[1].returned.isLocked

\* The failures at the end of the logs, after the last success entry.
RECURSIVE TrailingFailures(_)
TrailingFailures(logs) ==
    IF logs = <<>> \/ logs[Len(logs)].success THEN 0
    ELSE 1 + TrailingFailures(SubSeq(logs, 1, Len(logs) - 1))

\* C24: with registerUser, loginUser and getLockoutStatus called one after the
\* other, the persisted count is the number of failure entries at the end of
\* the persisted logs (since the last success entry, or since the vault was
\* made); an attempt rejected by a lockout in force adds to neither.
C24_CountIsTrailingFailures ==
    /\ getSecurityState.count = TrailingFailures(getSecurityState.logs)
    /\ \A i \in Procs :
          LET l == login[i] IN
          (l.pc = "returned" /\ l.securityState.lockoutUntil > l.now) =>
              /\ getSecurityState.count = l.securityState.count
              /\ getSecurityState.logs = l.securityState.logs

C24_Witness ==
    LET s == getSecurityState IN
    /\ Len(s.logs) = 4
    /\ ~s.logs[1].success
    /\ s.logs[2].success
    /\ ~s.logs[3].success
    /\ ~s.logs[4].success
    /\ s.count = 2

====
